---- MODULE Spec2Model ----
(***************************************************************************)
(* The Ethereum light-client bridge contract of ethbridge/src/lib.rs:      *)
(* the persisted EthBridge record, its init and add_block_header entry     *)
(* points, and the header store / canonical index / garbage collection     *)
(* behind them.                                                            *)
(***************************************************************************)
EXTENDS Integers, Sequences, FiniteSets, TLC

(***************************************************************************)
(* Program constants.                                                      *)
(***************************************************************************)
NUMBER_OF_BLOCKS_FINALITY == 30

\* Blocks per Ethash epoch (block_number / 30000).
EPOCH_LENGTH == 30000

\* header.gas_limit >= U256(5000)
MIN_GAS_LIMIT == 5000

(***************************************************************************)
(* Bounds of the model: the greatest block number on the main chain of the *)
(* header universe below, and the width of its numbers.                    *)
(***************************************************************************)
MaxNumber == 33

\* The number 0u64 - 1 wraps to.  u64::MAX = 2^64 - 1 is beyond TLC's integers;
\* the model's numbers are kept in 30 bits, and it only uses that the wrapped
\* number is the predecessor of 0 and lies above every number submitted.
U64_MAX == 1073741823

(***************************************************************************)
(* Hashes.  A hash names a header: <<lane, slot>>.  The zero hash is       *)
(* H256::default(); the foreign hash is the hash of a header that is never *)
(* submitted.                                                              *)
(***************************************************************************)
ZeroHash == <<"zero", 0>>

ForeignHash == <<"foreign", 0>>

H(lane, slot) == <<lane, slot>>

\* HeaderInfo::default()
DefaultInfo == [total_difficulty |-> 0, parent_hash |-> ZeroHash, number |-> 0]

(***************************************************************************)
(* near_bindgen::collections::Map as a function with a finite domain.      *)
(***************************************************************************)
EmptyMap == [k \in {} |-> 0]

Has(m, k) == k \in DOMAIN m

Insert(m, k, v) == [x \in (DOMAIN m) \cup {k} |-> IF x = k THEN v ELSE m[x]]

Remove(m, k) == [x \in (DOMAIN m) \ {k} |-> m[x]]

RemoveAll(m, ks) == [x \in (DOMAIN m) \ ks |-> m[x]]

\* self.infos.get(&hash).unwrap_or_default()
GetInfo(infos_, hash) == IF Has(infos_, hash) THEN infos_[hash] ELSE DefaultInfo

(***************************************************************************)
(* The headers a relayer may submit: rlp::decode of a byte string yields a *)
(* BlockHeader whose hash is the Keccak hash of those bytes, so an input   *)
(* is named by the hash of the header it encodes.  The universe is a block *)
(* tree: a main chain 0..MaxNumber and side chains that fork off it, plus  *)
(* headers that break one consensus rule each.                             *)
(***************************************************************************)
TopBase == MaxNumber - 3

BlockHeader(parent_hash, number, difficulty, gas_used, gas_limit, timestamp, hash) ==
    [parent_hash |-> parent_hash, number |-> number, difficulty |-> difficulty,
     gas_used |-> gas_used, gas_limit |-> gas_limit, timestamp |-> timestamp,
     hash |-> hash]

\* A fork of four headers off main 0: three of low difficulty and a heavy one.
LowHashes == {H("low", n) : n \in 1..4}

HeaderHashes ==
    {H("main", n) : n \in 0..MaxNumber}
      \cup {H("heavy", 1), H("heavy", 2), H("even", 2), H("odd", 2), H("odd", 3), H("odd", 4),
            H("top", TopBase + 1), H("top", TopBase + 2),
            H("gasused", 1), H("gashigh", 1), H("gasmin", 1), H("tsbad", 1),
            H("numbad", 2), H("lowdiff", 1), H("zerodiff", 1), H("orphan", 1)}
      \cup LowHashes

Malformed == <<"malformed", 0>>

\* The inputs of Spec: every header but the low fork, and a malformed one.
Encodings == (HeaderHashes \ LowHashes) \cup {Malformed}

\* The inputs of SpecDeep: the main chain, the heavy fork and the low fork.
DeepEncodings ==
    {H("main", n) : n \in 0..MaxNumber}
      \cup {H("heavy", 1), H("heavy", 2)} \cup LowHashes

\* rlp::decode(block_header.as_slice()) of a well-formed input.  Main-chain
\* headers have difficulty 200, so the main chain at number n has total
\* difficulty 200 * (n + 1) when it starts at number 0.
rlp_decode(h) ==
    LET lane == h[1]
        n    == h[2]
    IN  CASE lane = "main" ->
               BlockHeader(IF n = 0 THEN ZeroHash ELSE H("main", n - 1),
                           n, 200, 4000, 5000, 100 + n, h)
          [] lane = "heavy" /\ n = 1 ->
               BlockHeader(H("main", 0), 1, 200 * (NUMBER_OF_BLOCKS_FINALITY + 1),
                           4000, 5000, 101, h)
          [] lane = "heavy" /\ n = 2 ->
               BlockHeader(H("heavy", 1), 2, 101, 4000, 5000, 102, h)
          [] lane = "even" ->
               BlockHeader(H("main", 1), 2, 200, 4001, 5001, 102, h)
          [] lane = "odd" /\ n = 2 ->
               BlockHeader(H("main", 1), 2, 101, 4000, 5000, 102, h)
          [] lane = "odd" /\ n = 3 ->
               BlockHeader(H("odd", 2), 3, 299, 4000, 5003, 103, h)
          [] lane = "odd" /\ n = 4 ->
               BlockHeader(H("odd", 3), 4, 200 * NUMBER_OF_BLOCKS_FINALITY + 100,
                           4000, 5003, 104, h)
          [] lane = "top" /\ n = TopBase + 1 ->
               BlockHeader(H("main", TopBase), n, 101, 4000, 5000, 100 + n, h)
          [] lane = "top" /\ n = TopBase + 2 ->
               BlockHeader(H("top", TopBase + 1), n, 699, 5000, 5000, 100 + n, h)
          [] lane = "low" /\ n < 4 ->
               BlockHeader(IF n = 1 THEN H("main", 0) ELSE H("low", n - 1),
                           n, 101, 4000, 5000, 100 + n, h)
          [] lane = "low" /\ n = 4 ->
               BlockHeader(H("low", 3), 4, 200 * NUMBER_OF_BLOCKS_FINALITY + 400,
                           4000, 5000, 104, h)
          [] lane = "gasused" ->
               BlockHeader(H("main", 0), 1, 200, 5001, 5000, 101, h)
          [] lane = "gashigh" ->
               BlockHeader(H("main", 0), 1, 200, 4000, 5004, 101, h)
          [] lane = "gasmin" ->
               BlockHeader(H("main", 0), 1, 200, 4000, 4999, 101, h)
          [] lane = "tsbad" ->
               BlockHeader(H("main", 0), 1, 200, 4000, 5000, 100, h)
          [] lane = "numbad" ->
               BlockHeader(H("main", 0), 2, 200, 4000, 5000, 101, h)
          [] lane = "lowdiff" ->
               BlockHeader(H("main", 0), 1, 50, 4000, 5000, 101, h)
          [] lane = "zerodiff" ->
               BlockHeader(H("main", 0), 1, 0, 4000, 5000, 101, h)
          [] lane = "orphan" ->
               BlockHeader(ForeignHash, 1, 200, 4000, 5000, 101, h)

(***************************************************************************)
(* The Ethash witnesses of a call, by what hashimoto_merkle makes of them: *)
(* the root every Merkle proof folds to, and whether the Hashimoto result  *)
(* is below cross_boundary(header.difficulty).                             *)
(***************************************************************************)
Roots == {"rootA", "rootB"}

DagNodes == [root : Roots, below : BOOLEAN]

\* The arguments of init.
StartEpochs == {0, 1}

RootLists == {<<>>, <<"rootA">>}

(***************************************************************************)
(* EthBridge.  A value of the struct is a record b with the struct's       *)
(* fields; the operators below are its methods.                            *)
(***************************************************************************)

\* EthBridge::init
init(start_epoch, merkle_roots) ==
    [dags_start_epoch        |-> start_epoch,
     dags_merkle_roots       |-> merkle_roots,
     best_header_hash        |-> ZeroHash,
     canonical_header_hashes |-> EmptyMap,
     headers                 |-> EmptyMap,
     infos                   |-> EmptyMap,
     recent_header_hashes    |-> EmptyMap]

\* EthBridge::initialized
initialized(b) == Len(b.dags_merkle_roots) > 0

\* EthBridge::last_block_number
last_block_number(b) == GetInfo(b.infos, b.best_header_hash).number

\* EthBridge::block_hash: Some(hash) as <<hash>>, None as <<>>.
block_hash(b, index) ==
    IF Has(b.canonical_header_hashes, index)
    THEN <<b.canonical_header_hashes[index]>>
    ELSE <<>>

\* EthBridge::dag_merkle_root indexes dags_merkle_roots with
\* epoch - dags_start_epoch: whether that index is in range.
dag_merkle_root_in_range(b, epoch) ==
    /\ epoch >= b.dags_start_epoch
    /\ epoch - b.dags_start_epoch < Len(b.dags_merkle_roots)

\* EthBridge::dag_merkle_root
dag_merkle_root(b, epoch) == b.dags_merkle_roots[epoch - b.dags_start_epoch + 1]

\* add_recent_header_hash with a fresh set written at every call.
add_recent_header_hash_fresh_set(recent, number, hash) ==
    Insert(recent, number, {hash})

\* EthBridge::add_recent_header_hash
add_recent_header_hash(recent, number, hash) ==
    LET hashes == IF Has(recent, number) THEN recent[number] ELSE {}
    IN  Insert(recent, number, hashes \cup {hash})

\* maybe_gc that leaves the headers of the pruned hashes in place.
maybe_gc_keeps_headers(b, last_best_number, new_best_number) ==
    IF new_best_number > last_best_number
         /\ last_best_number >= NUMBER_OF_BLOCKS_FINALITY
    THEN LET numbers == {n \in (last_best_number - NUMBER_OF_BLOCKS_FINALITY)
                                 .. (new_best_number - NUMBER_OF_BLOCKS_FINALITY - 1) :
                            Has(b.recent_header_hashes, n)}
             hashes  == UNION {b.recent_header_hashes[n] : n \in numbers}
         IN  [b EXCEPT !.infos = RemoveAll(b.infos, hashes),
                       !.recent_header_hashes = RemoveAll(b.recent_header_hashes, numbers)]
    ELSE b

\* maybe_gc that also drops the canonical hashes of the pruned numbers.
maybe_gc_prunes_canonical(b, last_best_number, new_best_number) ==
    IF new_best_number > last_best_number
         /\ last_best_number >= NUMBER_OF_BLOCKS_FINALITY
    THEN LET range   == (last_best_number - NUMBER_OF_BLOCKS_FINALITY)
                          .. (new_best_number - NUMBER_OF_BLOCKS_FINALITY - 1)
             numbers == {n \in range : Has(b.recent_header_hashes, n)}
             hashes  == UNION {b.recent_header_hashes[n] : n \in numbers}
         IN  [b EXCEPT !.infos = RemoveAll(b.infos, hashes),
                       !.headers = RemoveAll(b.headers, hashes),
                       !.recent_header_hashes = RemoveAll(b.recent_header_hashes, numbers),
                       !.canonical_header_hashes =
                           RemoveAll(b.canonical_header_hashes, range)]
    ELSE b

\* maybe_gc that prunes every number below the new best minus the depth,
\* whatever the last best number.
maybe_gc_from_zero(b, last_best_number, new_best_number) ==
    IF new_best_number > last_best_number
    THEN LET numbers == {n \in 0 .. (new_best_number - NUMBER_OF_BLOCKS_FINALITY - 1) :
                            Has(b.recent_header_hashes, n)}
             hashes  == UNION {b.recent_header_hashes[n] : n \in numbers}
         IN  [b EXCEPT !.infos = RemoveAll(b.infos, hashes),
                       !.headers = RemoveAll(b.headers, hashes),
                       !.recent_header_hashes = RemoveAll(b.recent_header_hashes, numbers)]
    ELSE b

\* maybe_gc that prunes up to and including the new best minus the depth.
maybe_gc_prunes_boundary(b, last_best_number, new_best_number) ==
    IF new_best_number > last_best_number
         /\ last_best_number >= NUMBER_OF_BLOCKS_FINALITY
    THEN LET numbers == {n \in (last_best_number - NUMBER_OF_BLOCKS_FINALITY)
                                 .. (new_best_number - NUMBER_OF_BLOCKS_FINALITY) :
                            Has(b.recent_header_hashes, n)}
             hashes  == UNION {b.recent_header_hashes[n] : n \in numbers}
         IN  [b EXCEPT !.infos = RemoveAll(b.infos, hashes),
                       !.headers = RemoveAll(b.headers, hashes),
                       !.recent_header_hashes = RemoveAll(b.recent_header_hashes, numbers)]
    ELSE b

\* EthBridge::maybe_gc
maybe_gc(b, last_best_number, new_best_number) ==
    IF new_best_number > last_best_number
         /\ last_best_number >= NUMBER_OF_BLOCKS_FINALITY
    THEN LET numbers == {n \in (last_best_number - NUMBER_OF_BLOCKS_FINALITY)
                                 .. (new_best_number - NUMBER_OF_BLOCKS_FINALITY - 1) :
                            Has(b.recent_header_hashes, n)}
             hashes  == UNION {b.recent_header_hashes[n] : n \in numbers}
         IN  [b EXCEPT !.infos = RemoveAll(b.infos, hashes),
                       !.headers = RemoveAll(b.headers, hashes),
                       !.recent_header_hashes = RemoveAll(b.recent_header_hashes, numbers)]
    ELSE b

\* The loop of maybe_store_header that replaces past canonical hashes until the
\* chains converge, entered with (number, current_hash).
RECURSIVE replace_past_hashes(_, _, _, _)
replace_past_hashes(canonical, infos_, number, current_hash) ==
    LET prev_value == IF Has(canonical, number) THEN <<canonical[number]>> ELSE <<>>
        written    == Insert(canonical, number, current_hash)
    IN  IF number = 0 \/ prev_value = <<current_hash>>
        THEN written
        ELSE IF Has(infos_, current_hash)
             THEN replace_past_hashes(written, infos_, number - 1,
                                      infos_[current_hash].parent_hash)
             ELSE written

\* The first step of maybe_store_header for a new tip: if the new header has a
\* lower number than the previous best, the canonical hashes above it go.
clean_forward(canonical, new_number, best_number) ==
    IF best_number > new_number
    THEN RemoveAll(canonical, (new_number + 1) .. best_number)
    ELSE canonical

\* is_new_tip with the parity test applied to both cases.
is_new_tip_even_required(info, best_info, header) ==
    /\ info.total_difficulty >= best_info.total_difficulty
    /\ header.difficulty % 2 = 0

\* The new tip condition of a longest-chain rule.
is_new_tip_longest(info, best_info, header) ==
    info.number > best_info.number

\* is_new_tip with the tie decided for the new header whatever its difficulty.
is_new_tip_any_tie(info, best_info, header) ==
    info.total_difficulty >= best_info.total_difficulty

\* The condition of maybe_store_header under which the new header becomes the
\* tip of the canonical chain.
is_new_tip(info, best_info, header) ==
    \/ info.total_difficulty > best_info.total_difficulty
    \/ /\ info.total_difficulty = best_info.total_difficulty
       /\ header.difficulty % 2 = 0

\* The first branch of maybe_store_header: the header is too old to be added.
too_late(best_info, header) ==
    best_info.number > header.number + NUMBER_OF_BLOCKS_FINALITY

\* EthBridge::maybe_store_header.  header.number - 1 underflows for number 0:
\* a build with overflow checks panics there, any other build wraps.  The
\* result is the struct as the method leaves it and whether it panicked.
maybe_store_header(b, header, overflow_checks) ==
    LET best_info == GetInfo(b.infos, b.best_header_hash)
    IN  IF too_late(best_info, header)
        THEN [panicked |-> FALSE, b |-> b]
        ELSE
          LET header_hash == header.hash
              parent_info == GetInfo(b.infos, header.parent_hash)
              info == [total_difficulty |-> parent_info.total_difficulty + header.difficulty,
                       parent_hash      |-> header.parent_hash,
                       number           |-> header.number]
              b1 == [b EXCEPT
                       !.headers = Insert(b.headers, header_hash, header),
                       !.infos = Insert(b.infos, header_hash, info),
                       !.recent_header_hashes =
                           add_recent_header_hash(b.recent_header_hashes, info.number,
                                                  header_hash)]
          IN  IF is_new_tip(info, best_info, header)
              THEN
                LET cleaned == clean_forward(b1.canonical_header_hashes, info.number,
                                             best_info.number)
                    b2 == [b1 EXCEPT
                             !.best_header_hash = header_hash,
                             !.canonical_header_hashes =
                                 Insert(cleaned, info.number, header_hash)]
                IN  IF header.number = 0 /\ overflow_checks
                    THEN [panicked |-> TRUE, b |-> b2]
                    ELSE
                      LET number == IF header.number = 0 THEN U64_MAX
                                    ELSE header.number - 1
                          b3 == [b2 EXCEPT
                                   !.canonical_header_hashes =
                                       replace_past_hashes(b2.canonical_header_hashes,
                                                           b2.infos, number,
                                                           info.parent_hash)]
                      IN  [panicked |-> FALSE,
                           b |-> maybe_gc(b3, best_info.number, info.number)]
              ELSE [panicked |-> FALSE, b |-> b1]

\* EthBridge::hashimoto_merkle: "range" when dag_merkle_root indexes out of
\* dags_merkle_roots, "merkle" when a proof does not fold to the epoch's root,
\* else whether the result is below the boundary.
hashimoto_merkle(b, block_number, dag_nodes) ==
    LET epoch == block_number \div EPOCH_LENGTH
    IN  IF ~dag_merkle_root_in_range(b, epoch) THEN "range"
        ELSE IF dag_merkle_root(b, epoch) # dag_nodes.root THEN "merkle"
        ELSE IF dag_nodes.below THEN "below" ELSE "above"

\* consensus_rules with the upper gas-limit bound inclusive.
consensus_rules_gas_le(header, prev) ==
    /\ header.difficulty < (header.difficulty * 101) \div 100
    /\ header.difficulty > (header.difficulty * 99) \div 100
    /\ header.gas_used <= header.gas_limit
    /\ header.gas_limit <= (prev.gas_limit * 1025) \div 1024
    /\ header.gas_limit > (prev.gas_limit * 1023) \div 1024
    /\ header.gas_limit >= MIN_GAS_LIMIT
    /\ header.timestamp > prev.timestamp
    /\ header.number = prev.number + 1
    /\ header.parent_hash = prev.hash

\* The conjuncts of verify_header after the PoW comparison.
consensus_rules(header, prev) ==
    /\ header.difficulty < (header.difficulty * 101) \div 100
    /\ header.difficulty > (header.difficulty * 99) \div 100
    /\ header.gas_used <= header.gas_limit
    /\ header.gas_limit < (prev.gas_limit * 1025) \div 1024
    /\ header.gas_limit > (prev.gas_limit * 1023) \div 1024
    /\ header.gas_limit >= MIN_GAS_LIMIT
    /\ header.timestamp > prev.timestamp
    /\ header.number = prev.number + 1
    /\ header.parent_hash = prev.hash

\* EthBridge::verify_header: "range" and "merkle" are the panics inside
\* hashimoto_merkle, "valid" and "invalid" the returned bool.
verify_header(b, header, prev, dag_nodes) ==
    LET pow == hashimoto_merkle(b, header.number, dag_nodes)
    IN  IF pow \in {"range", "merkle"} THEN pow
        ELSE IF pow = "below" /\ consensus_rules(header, prev) THEN "valid"
        ELSE "invalid"

(***************************************************************************)
(* EthBridge::add_block_header on the struct b.  The result names the path *)
(* the call took: it returned after storing the header ("stored"), after   *)
(* finding it known ("known") or too old ("too_late"), or it panicked      *)
(* ("decode", "unknown_parent", "range", "merkle", "invalid", "overflow"); *)
(* b is the struct as the call left it.                                    *)
(***************************************************************************)
store_result(b, header, overflow_checks) ==
    LET r == maybe_store_header(b, header, overflow_checks)
    IN  [result |-> IF r.panicked THEN "overflow"
                    ELSE IF too_late(GetInfo(b.infos, b.best_header_hash), header)
                    THEN "too_late" ELSE "stored",
         b |-> r.b]

\* add_block_header without the early return for a known header.
add_block_header_no_known_check(b, block_header, dag_nodes, overflow_checks) ==
    IF block_header \notin HeaderHashes
    THEN [result |-> "decode", b |-> b]
    ELSE
      LET header == rlp_decode(block_header)
      IN  IF b.best_header_hash = ZeroHash
          THEN store_result(b, header, overflow_checks)
          ELSE IF ~Has(b.headers, header.parent_hash)
          THEN [result |-> "unknown_parent", b |-> b]
          ELSE
            LET prev == b.headers[header.parent_hash]
                v    == verify_header(b, header, prev, dag_nodes)
            IN  IF v # "valid"
                THEN [result |-> v, b |-> b]
                ELSE store_result(b, header, overflow_checks)

\* add_block_header with the header stored before it is verified.
add_block_header_store_first(b, block_header, dag_nodes, overflow_checks) ==
    IF block_header \notin HeaderHashes
    THEN [result |-> "decode", b |-> b]
    ELSE
      LET header == rlp_decode(block_header)
      IN  IF b.best_header_hash = ZeroHash
          THEN store_result(b, header, overflow_checks)
          ELSE IF Has(b.infos, header.hash)
          THEN [result |-> "known", b |-> b]
          ELSE IF ~Has(b.headers, header.parent_hash)
          THEN [result |-> "unknown_parent", b |-> b]
          ELSE
            LET prev == b.headers[header.parent_hash]
                r    == store_result(b, header, overflow_checks)
                v    == verify_header(b, header, prev, dag_nodes)
            IN  IF v # "valid"
                THEN [result |-> v, b |-> r.b]
                ELSE r

add_block_header(b, block_header, dag_nodes, overflow_checks) ==
    IF block_header \notin HeaderHashes
    THEN [result |-> "decode", b |-> b]
    ELSE
      LET header == rlp_decode(block_header)
      IN  IF b.best_header_hash = ZeroHash
          THEN \* Submit very first block, can trust relayer
               store_result(b, header, overflow_checks)
          ELSE IF Has(b.infos, header.hash)
          THEN \* The header is already known
               [result |-> "known", b |-> b]
          ELSE IF ~Has(b.headers, header.parent_hash)
          THEN [result |-> "unknown_parent", b |-> b]
          ELSE
            LET prev == b.headers[header.parent_hash]
                v    == verify_header(b, header, prev, dag_nodes)
            IN  IF v # "valid"
                THEN [result |-> v, b |-> b]
                ELSE store_result(b, header, overflow_checks)

\* The results with which add_block_header returns, and those that are panics
\* raised before maybe_store_header is entered.
Returned == {"stored", "known", "too_late"}

Rejected == {"decode", "unknown_parent", "range", "merkle", "invalid"}

(***************************************************************************)
(* The contract: the EthBridge its entry points run on (state_exists is    *)
(* whether state_read finds one), and the last call: its entry point, how  *)
(* it ended, the header it wrote and the best hash before it.  A call that *)
(* panics leaves the writes its method made before the panic, so that the  *)
(* order of the checks and the writes in the code is what is observed.     *)
(***************************************************************************)
VARIABLES state_exists, dags_start_epoch, dags_merkle_roots, best_header_hash,
          canonical_header_hashes, headers, infos, recent_header_hashes, last

bridge_vars == <<state_exists, dags_start_epoch, dags_merkle_roots, best_header_hash,
                 canonical_header_hashes, headers, infos, recent_header_hashes>>

vars == <<state_exists, dags_start_epoch, dags_merkle_roots, best_header_hash,
          canonical_header_hashes, headers, infos, recent_header_hashes, last>>

\* The struct the next call reads.
Bridge ==
    [dags_start_epoch        |-> dags_start_epoch,
     dags_merkle_roots       |-> dags_merkle_roots,
     best_header_hash        |-> best_header_hash,
     canonical_header_hashes |-> canonical_header_hashes,
     headers                 |-> headers,
     infos                   |-> infos,
     recent_header_hashes    |-> recent_header_hashes]

\* The struct after the step.
BridgeNext ==
    [dags_start_epoch        |-> dags_start_epoch',
     dags_merkle_roots       |-> dags_merkle_roots',
     best_header_hash        |-> best_header_hash',
     canonical_header_hashes |-> canonical_header_hashes',
     headers                 |-> headers',
     infos                   |-> infos',
     recent_header_hashes    |-> recent_header_hashes']

\* state_write(&contract)
Write(b) ==
    /\ dags_start_epoch' = b.dags_start_epoch
    /\ dags_merkle_roots' = b.dags_merkle_roots
    /\ best_header_hash' = b.best_header_hash
    /\ canonical_header_hashes' = b.canonical_header_hashes
    /\ headers' = b.headers
    /\ infos' = b.infos
    /\ recent_header_hashes' = b.recent_header_hashes

\* The record of a call that wrote nothing of its input.
Call(op, result) ==
    [op |-> op, result |-> result, block_header |-> ZeroHash,
     dag_nodes |-> [root |-> "rootA", below |-> TRUE],
     prev_best |-> best_header_hash]

\* Before init no state is stored; the fields read as their defaults.
Init ==
    /\ state_exists = FALSE
    /\ dags_start_epoch = 0
    /\ dags_merkle_roots = <<>>
    /\ best_header_hash = ZeroHash
    /\ canonical_header_hashes = EmptyMap
    /\ headers = EmptyMap
    /\ infos = EmptyMap
    /\ recent_header_hashes = EmptyMap
    /\ last = [op |-> "none", result |-> "none", block_header |-> ZeroHash,
               dag_nodes |-> [root |-> "rootA", below |-> TRUE],
               prev_best |-> ZeroHash]

\* The entry point init without the check that no state exists.
InitCall_overwrites(start_epoch, merkle_roots) ==
    /\ state_exists' = TRUE
    /\ Write(init(start_epoch, merkle_roots))
    /\ last' = Call("init", "ok")

\* The entry point init: fails with "Already initialized" when state exists.
InitCall(start_epoch, merkle_roots) ==
    IF state_exists
    THEN /\ last' = Call("init", "already_initialized")
         /\ UNCHANGED bridge_vars
    ELSE /\ state_exists' = TRUE
         /\ Write(init(start_epoch, merkle_roots))
         /\ last' = Call("init", "ok")

\* The entry point add_block_header: state_read().unwrap() panics when no
\* state exists; otherwise the method runs on the stored struct.  last keeps
\* the input of a call that passed every check (it wrote the header, or
\* dropped it as too old).
AddBlockHeader(block_header, dag_nodes, overflow_checks) ==
    IF ~state_exists
    THEN /\ last' = Call("add_block_header", "no_state")
         /\ UNCHANGED bridge_vars
    ELSE LET r == add_block_header(Bridge, block_header, dag_nodes, overflow_checks)
         IN  /\ Write(r.b)
             /\ UNCHANGED state_exists
             /\ last' = IF r.result \in {"stored", "too_late", "overflow"}
                        THEN [op |-> "add_block_header", result |-> r.result,
                              block_header |-> block_header, dag_nodes |-> dag_nodes,
                              prev_best |-> best_header_hash]
                        ELSE Call("add_block_header", r.result)

\* The witnesses and the build that a call with this input reads: dag_nodes is
\* read by verify_header only, and header.number - 1 can underflow only for
\* number 0.  Where the call reads neither, one value stands for all.
ReadsDagNodes(block_header) ==
    /\ state_exists
    /\ block_header \in HeaderHashes
    /\ best_header_hash # ZeroHash
    /\ ~Has(infos, block_header)
    /\ Has(headers, rlp_decode(block_header).parent_hash)

DagNodesRead(block_header) ==
    IF ReadsDagNodes(block_header) THEN DagNodes
    ELSE {[root |-> "rootA", below |-> TRUE]}

BuildsRead(block_header) ==
    IF block_header \in HeaderHashes /\ rlp_decode(block_header).number = 0
    THEN BOOLEAN ELSE {FALSE}

Next ==
    \/ \E start_epoch \in StartEpochs, merkle_roots \in RootLists :
          InitCall(start_epoch, merkle_roots)
    \/ \E block_header \in Encodings :
          \E dag_nodes \in DagNodesRead(block_header),
             overflow_checks \in BuildsRead(block_header) :
             AddBlockHeader(block_header, dag_nodes, overflow_checks)

Spec == Init /\ [][Next]_vars

\* The same entry points with the inputs of DeepEncodings.
NextDeep ==
    \/ \E start_epoch \in StartEpochs, merkle_roots \in RootLists :
          InitCall(start_epoch, merkle_roots)
    \/ \E block_header \in DeepEncodings :
          \E dag_nodes \in DagNodesRead(block_header),
             overflow_checks \in BuildsRead(block_header) :
             AddBlockHeader(block_header, dag_nodes, overflow_checks)

SpecDeep == Init /\ [][NextDeep]_vars

(***************************************************************************)
(* Properties.  Those about what a call does in a state quantify over the  *)
(* inputs of add_block_header in every reachable state.                    *)
(***************************************************************************)
BestInfo == GetInfo(infos, best_header_hash)

Steady == state_exists /\ best_header_hash # ZeroHash

\* The header was written by the call that ended with this result.
Wrote(result) == result \in {"stored", "overflow"}

\* C1: a call of add_block_header that fails on the header's decoding, on a
\* missing parent, on a Merkle-root mismatch or on an invalid header (PoW or a
\* consensus rule) leaves every field of the bridge as it was.
C1_RejectedCallLeavesState ==
    [][(last'.op = "add_block_header" /\ last'.result \in Rejected)
          => BridgeNext = Bridge]_vars

C1_Witness ==
    /\ last.op = "add_block_header"
    /\ last.result = "invalid"
    /\ Cardinality(DOMAIN headers) >= 2

\* C2: with best_header_hash zero, add_block_header of any well-formed header
\* stores it and returns, whatever its fields, its parent and the witnesses:
\* afterwards best_header_hash is its hash, last_block_number() its number, and
\* headers and infos hold it.
C2_BootstrapStoresAnyHeader ==
    [][(state_exists /\ best_header_hash = ZeroHash
          /\ last'.op = "add_block_header" /\ last'.result # "decode")
          => /\ last'.result = "stored"
             /\ LET h      == last'.block_header
                    header == rlp_decode(h)
                IN  /\ best_header_hash' = h
                    /\ last_block_number(BridgeNext) = header.number
                    /\ Has(headers', h) /\ headers'[h] = header
                    /\ Has(infos', h) /\ infos'[h].number = header.number]_vars

\* The conditions C3 names for a header against the headers stored: its parent
\* is stored and, against it, the number, timestamp, parent hash and gas rules
\* hold, and the PoW result is below the boundary.
C3_Conditions(header, dag_nodes) ==
    /\ Has(headers, header.parent_hash)
    /\ LET parent == headers[header.parent_hash]
       IN  /\ header.number = parent.number + 1
           /\ header.timestamp > parent.timestamp
           /\ header.parent_hash = parent.hash
           /\ header.gas_used <= header.gas_limit
           /\ header.gas_limit >= 5000
           /\ (parent.gas_limit * 1023) \div 1024 < header.gas_limit
           /\ header.gas_limit < (parent.gas_limit * 1025) \div 1024
    /\ dag_nodes.below

\* C3: in steady state a call for a header not yet known that does not fail
\* (it stores the header, or drops it as too old) has the parent in headers and
\* meets the consensus and PoW conditions against it: when the parent is absent
\* or a condition is false the call fails, and nothing is stored.
C3_StoredOnlyIfVerified ==
    [][(Steady /\ last'.op = "add_block_header"
          /\ last'.result \in {"stored", "too_late", "overflow"})
          => /\ ~Has(infos, last'.block_header)
             /\ C3_Conditions(rlp_decode(last'.block_header), last'.dag_nodes)]_vars

C3_Witness ==
    /\ last.op = "add_block_header"
    /\ last.result = "stored"
    /\ last.prev_best # ZeroHash
    /\ Has(headers, last.block_header)

\* C4: a header that is stored becomes the tip iff its total difficulty is
\* greater than that of the best header, or equal with an even difficulty;
\* otherwise best_header_hash and canonical_header_hashes stay as they were.
C4_CanonicalDecision ==
    [][(last'.op = "add_block_header" /\ Wrote(last'.result))
          => LET h      == last'.block_header
                 header == rlp_decode(h)
                 total  == infos'[h].total_difficulty
                 wins   == \/ total > BestInfo.total_difficulty
                           \/ /\ total = BestInfo.total_difficulty
                              /\ header.difficulty % 2 = 0
             IN  /\ (best_header_hash' = h) <=> wins
                 /\ ~wins =>
                      /\ best_header_hash' = best_header_hash
                      /\ canonical_header_hashes' = canonical_header_hashes]_vars

C4_Witness ==
    /\ last.op = "add_block_header"
    /\ last.result = "stored"
    /\ best_header_hash # last.block_header
    /\ Has(infos, last.block_header)
    /\ infos[last.block_header].total_difficulty = BestInfo.total_difficulty

\* The ancestors of a new tip from (number, hash) down to the fork point, the
\* first ancestor that was canonical before the call, hold the canonical
\* entries of their numbers after it.  The ancestors are those the headers
\* name, whether or not the bridge still holds them.
RECURSIVE C5_AncestorsCanonical(_, _, _, _)
C5_AncestorsCanonical(before, after, number, hash) ==
    /\ Has(after, number)
    /\ after[number] = hash
    /\ \/ number = 0
       \/ Has(before, number) /\ before[number] = hash
       \/ hash \notin HeaderHashes
       \/ C5_AncestorsCanonical(before, after, number - 1,
                                rlp_decode(hash).parent_hash)

\* C5: when the header that becomes the tip has a lower number than the old
\* tip, afterwards canonical_header_hashes has no entry above the new number up
\* to the old one, its entry at the new number is the new hash, the numbers
\* from the fork point up hold the new header's ancestors, and
\* best_header_hash is the new hash.
C5_ReorgToLowerTip ==
    [][(Steady /\ last'.op = "add_block_header" /\ Wrote(last'.result)
          /\ best_header_hash' = last'.block_header
          /\ rlp_decode(last'.block_header).number < BestInfo.number)
          => LET h      == last'.block_header
                 header == rlp_decode(h)
             IN  /\ \A n \in (header.number + 1) .. BestInfo.number :
                       ~Has(canonical_header_hashes', n)
                 /\ Has(canonical_header_hashes', header.number)
                 /\ canonical_header_hashes'[header.number] = h
                 /\ C5_AncestorsCanonical(canonical_header_hashes,
                                          canonical_header_hashes',
                                          header.number - 1, header.parent_hash)
                 /\ best_header_hash' = h]_vars

\* C6: when a header whose parent is the current tip is stored and becomes the
\* tip, canonical_header_hashes holds its hash at its number and block_hash(n)
\* is as before for every n below its number.
C6_ExtensionFrame ==
    [][(Steady /\ last'.op = "add_block_header" /\ Wrote(last'.result)
          /\ rlp_decode(last'.block_header).parent_hash = best_header_hash
          /\ best_header_hash' = last'.block_header)
          => LET h      == last'.block_header
                 header == rlp_decode(h)
             IN  /\ block_hash(BridgeNext, header.number) = <<h>>
                 /\ \A n \in (DOMAIN canonical_header_hashes)
                               \cup (DOMAIN canonical_header_hashes') :
                       n < header.number
                         => block_hash(BridgeNext, n) = block_hash(Bridge, n)]_vars

C6_Witness ==
    /\ last.op = "add_block_header"
    /\ last.result = "stored"
    /\ last.prev_best # ZeroHash
    /\ rlp_decode(last.block_header).parent_hash = last.prev_best
    /\ best_header_hash = last.block_header
    /\ block_hash(Bridge, last_block_number(Bridge)) = <<best_header_hash>>
    /\ block_hash(Bridge, last_block_number(Bridge) - 1) = <<last.prev_best>>

\* C7: after a call that stored a header, a second call with the same header,
\* whatever the witnesses and the build, returns and leaves every field of the
\* bridge as it is.
C7_Idempotent ==
    (last.op = "add_block_header" /\ last.result = "stored")
      => \A dag_nodes \in DagNodes, overflow_checks \in BOOLEAN :
            LET r == add_block_header(Bridge, last.block_header, dag_nodes,
                                      overflow_checks)
            IN  r.result \in Returned /\ r.b = Bridge

C7_Witness ==
    /\ last.op = "add_block_header"
    /\ last.result = "known"
    /\ Steady
    /\ Cardinality(DOMAIN headers) >= 2

\* C8: a hash is a key of headers iff it is a key of infos, and then the two
\* entries have the same number.
C8_HeaderInfoParity ==
    /\ DOMAIN headers = DOMAIN infos
    /\ \A h \in DOMAIN headers : headers[h].number = infos[h].number

\* A state after garbage collection: the main chain from number 0 has grown
\* past the finality depth and its first header is gone.
C8_Witness ==
    /\ best_header_hash = H("main", NUMBER_OF_BLOCKS_FINALITY + 1)
    /\ Has(canonical_header_hashes, 0)
    /\ canonical_header_hashes[0] = H("main", 0)
    /\ ~Has(headers, H("main", 0))
    /\ Has(headers, H("main", 1))

\* C9: every hash h in headers is in recent_header_hashes[headers[h].number],
\* and every hash in recent_header_hashes[n] has an infos entry of number n.
C9_RecentConsistent ==
    /\ \A h \in DOMAIN headers :
          /\ Has(recent_header_hashes, headers[h].number)
          /\ h \in recent_header_hashes[headers[h].number]
    /\ \A n \in DOMAIN recent_header_hashes :
          \A h \in recent_header_hashes[n] : Has(infos, h) /\ infos[h].number = n

\* Several hashes at one number, after a garbage collection.
C9_Witness ==
    /\ Has(recent_header_hashes, TopBase + 1)
    /\ Cardinality(recent_header_hashes[TopBase + 1]) = 2
    /\ ~Has(recent_header_hashes, 0)
    /\ Has(canonical_header_hashes, 0)
    /\ canonical_header_hashes[0] = H("main", 0)

\* C10: every hash in headers, infos and recent_header_hashes has a number
\* greater than the best number minus the finality depth.
C10_FinalityBound ==
    /\ \A h \in (DOMAIN headers) \cup (DOMAIN infos) :
          GetInfo(infos, h).number > BestInfo.number - NUMBER_OF_BLOCKS_FINALITY
    /\ \A n \in DOMAIN recent_header_hashes :
          recent_header_hashes[n] # {}
            => n > BestInfo.number - NUMBER_OF_BLOCKS_FINALITY

\* The bound of C10 with the number equal to best minus the depth admitted.
C10_FinalityBoundInclusive ==
    \A h \in DOMAIN headers :
       infos[h].number >= BestInfo.number - NUMBER_OF_BLOCKS_FINALITY

\* The number below which C11 to C16 count a header as beyond the finality
\* depth of the best header.
Horizon == BestInfo.number - NUMBER_OF_BLOCKS_FINALITY

\* C11: after every add_block_header, no hash of headers or infos and no
\* number of recent_header_hashes is more than the finality depth below the
\* best number.
C11_EvictionComplete ==
    (last.op = "add_block_header")
      => /\ \A h \in (DOMAIN headers) \cup (DOMAIN infos) :
               GetInfo(infos, h).number >= Horizon
         /\ \A n \in DOMAIN recent_header_hashes : n >= Horizon

\* C12: every canonical_header_hashes entry at a number above the horizon is
\* the hash of a header in headers with that number.
C12_CanonicalAtHeight ==
    \A n \in DOMAIN canonical_header_hashes :
       n > Horizon
         => LET h == canonical_header_hashes[n]
            IN  Has(headers, h) /\ headers[h].number = n

\* The walk of C13 from hash h: numbers strictly decrease along parent_hash,
\* and where the parent is not in infos the header has number 0 or its parent's
\* number is at or below the horizon.
RECURSIVE C13_Walk(_)
C13_Walk(h) ==
    /\ Has(infos, h)
    /\ LET parent == infos[h].parent_hash
       IN  IF Has(infos, parent)
           THEN infos[parent].number < infos[h].number /\ C13_Walk(parent)
           ELSE infos[h].number = 0 \/ infos[h].number - 1 <= Horizon

\* C13 as stated: after bootstrap the walk from best_header_hash visits
\* strictly decreasing numbers and leaves infos only at number 0 or at or
\* below the horizon.
C13_ChainWalk == Steady => C13_Walk(best_header_hash)

\* The walk from h visits strictly decreasing numbers for as long as it is in
\* infos.
RECURSIVE C13_Decreasing(_)
C13_Decreasing(h) ==
    /\ Has(infos, h)
    /\ LET parent == infos[h].parent_hash
       IN  Has(infos, parent)
             => infos[parent].number < infos[h].number /\ C13_Decreasing(parent)

\* C13 amended: after bootstrap the walk from best_header_hash visits strictly
\* decreasing numbers; every header stored after the bootstrap header has its
\* parent in infos, at a lower number, when the call ends; and an entry leaves
\* infos only at a number more than the finality depth below the best number
\* of the call that removes it.  So the walk leaves infos only at the
\* bootstrap header or at a header whose parent was pruned.
C13_ChainWalkAmended ==
    /\ [](Steady => C13_Decreasing(best_header_hash))
    /\ [][/\ (Steady /\ last'.op = "add_block_header" /\ Wrote(last'.result))
               => LET header == rlp_decode(last'.block_header)
                  IN  /\ Has(infos', header.parent_hash)
                      /\ infos'[header.parent_hash].number < header.number
          /\ \A h \in (DOMAIN infos) \ (DOMAIN infos') :
                infos[h].number
                  < GetInfo(infos', best_header_hash').number
                      - NUMBER_OF_BLOCKS_FINALITY]_vars

\* The best header is on a fork whose lower part was pruned while the main
\* chain was the tip: the walk leaves infos above the horizon.
C13_Witness ==
    /\ best_header_hash = H("odd", 4)
    /\ Has(infos, H("odd", 3))
    /\ ~Has(infos, H("odd", 2))
    /\ Has(infos, H("main", MaxNumber))
    /\ infos[H("odd", 3)].number - 1 > Horizon

\* C14: from one state to the next the total difficulty of the best header
\* never decreases.
C14_ReorgMonotone ==
    [][GetInfo(infos', best_header_hash').total_difficulty
         >= BestInfo.total_difficulty]_vars

\* A reorg to a much lower tip, after garbage collection, that raised the
\* total difficulty.
C14_Witness ==
    /\ last.op = "add_block_header"
    /\ last.result = "stored"
    /\ last.block_header = H("odd", 4)
    /\ last.prev_best = H("main", MaxNumber)
    /\ best_header_hash = H("odd", 4)
    /\ ~Has(infos, H("main", 1))
    /\ BestInfo.total_difficulty > infos[H("main", MaxNumber)].total_difficulty

\* C15: after bootstrap no infos entry has a greater total difficulty than the
\* best header's.
C15_BestHasMaxWork ==
    Steady => \A h \in DOMAIN infos :
                 BestInfo.total_difficulty >= infos[h].total_difficulty

\* A stored fork header that tied with the tip and lost on its odd difficulty.
C15_Witness ==
    /\ best_header_hash = H("main", 3)
    /\ Has(infos, H("odd", 3))
    /\ Has(infos, H("even", 2))
    /\ infos[H("odd", 3)].total_difficulty = BestInfo.total_difficulty

\* C16: a call of add_block_header leaves block_hash(n) as it was for every
\* number n that is below the horizon when it is made.
C16_BoundedReorg ==
    [][(Steady /\ last'.op = "add_block_header")
         => \A n \in (DOMAIN canonical_header_hashes)
                       \cup (DOMAIN canonical_header_hashes') :
               n < Horizon => block_hash(BridgeNext, n) = block_hash(Bridge, n)]_vars

\* C17: init succeeds exactly when no state exists, and a failed init leaves
\* every field as it was; once state exists no call changes dags_start_epoch
\* or dags_merkle_roots; and initialized() is true exactly when the roots list
\* is not empty.
C17_InitOnce ==
    /\ [](initialized(Bridge) <=> dags_merkle_roots # <<>>)
    /\ [][/\ last'.op = "init"
               => IF state_exists
                  THEN last'.result = "already_initialized" /\ BridgeNext = Bridge
                  ELSE last'.result = "ok" /\ state_exists'
          /\ state_exists
               => /\ state_exists'
                  /\ dags_start_epoch' = dags_start_epoch
                  /\ dags_merkle_roots' = dags_merkle_roots]_vars

\* A second init, refused after headers were stored.
C17_Witness ==
    /\ last.op = "init"
    /\ last.result = "already_initialized"
    /\ initialized(Bridge)
    /\ Cardinality(DOMAIN headers) >= 2

\* C18: a call of add_block_header removes entries of headers, infos and
\* recent_header_hashes only when the best number grows and the old best
\* number is at least the finality depth, and then only at numbers from the
\* old best minus the depth up to, and not including, the new best minus the
\* depth; every header at or above the new best minus the depth, the best one
\* among them, stays; and such a call removes no canonical_header_hashes entry.
C18_GcFrame ==
    [][(last'.op = "add_block_header")
         => IF ~Wrote(last'.result)
            THEN /\ headers' = headers
                 /\ infos' = infos
                 /\ recent_header_hashes' = recent_header_hashes
            ELSE
            LET old     == BestInfo.number
                new     == GetInfo(infos', best_header_hash').number
                gc      == new > old /\ old >= NUMBER_OF_BLOCKS_FINALITY
                range   == (old - NUMBER_OF_BLOCKS_FINALITY)
                             .. (new - NUMBER_OF_BLOCKS_FINALITY - 1)
                removed == ((DOMAIN headers) \ (DOMAIN headers'))
                             \cup ((DOMAIN infos) \ (DOMAIN infos'))
                numbers == (DOMAIN recent_header_hashes)
                             \ (DOMAIN recent_header_hashes')
            IN  /\ (removed # {} \/ numbers # {}) => gc
                /\ \A h \in removed : GetInfo(infos, h).number \in range
                /\ numbers \subseteq range
                /\ \A n \in DOMAIN recent_header_hashes' :
                      Has(recent_header_hashes, n)
                        => recent_header_hashes[n] \subseteq recent_header_hashes'[n]
                             \/ n \in range
                /\ \A h \in DOMAIN headers :
                      headers[h].number >= new - NUMBER_OF_BLOCKS_FINALITY
                        => Has(headers', h) /\ Has(infos', h)
                /\ Steady => Has(headers', best_header_hash')
                /\ gc => (DOMAIN canonical_header_hashes)
                           \subseteq (DOMAIN canonical_header_hashes')]_vars

\* The extension to main MaxNumber pruned the two hashes of number
\* MaxNumber - 31 and left its canonical entry and the fork header above it.
C18_Witness ==
    /\ last.op = "add_block_header"
    /\ last.result = "stored"
    /\ last.block_header = H("main", MaxNumber)
    /\ last.prev_best = H("main", MaxNumber - 1)
    /\ ~Has(recent_header_hashes, MaxNumber - NUMBER_OF_BLOCKS_FINALITY - 1)
    /\ ~Has(headers, H("main", 2))
    /\ Has(headers, H("odd", 3))
    /\ Has(headers, H("main", 3))
    /\ Has(canonical_header_hashes, 2)
    /\ canonical_header_hashes[2] = H("main", 2)

\* C19: after bootstrap block_hash(last_block_number()) is best_header_hash
\* and canonical_header_hashes has no entry above last_block_number().
C19_TipAgreement ==
    Steady
      => /\ block_hash(Bridge, last_block_number(Bridge)) = <<best_header_hash>>
         /\ \A n \in DOMAIN canonical_header_hashes : n <= last_block_number(Bridge)

\* C20: for every number n >= 1 whose canonical_header_hashes entry h is in
\* infos, the entry at n - 1 exists and is the parent hash of h.
C20_ParentLinked ==
    \A n \in DOMAIN canonical_header_hashes :
       (n >= 1 /\ Has(infos, canonical_header_hashes[n]))
         => /\ Has(canonical_header_hashes, n - 1)
            /\ canonical_header_hashes[n - 1]
                 = infos[canonical_header_hashes[n]].parent_hash

====
